---- MODULE Spec2Model ----
(***************************************************************************)
(* Model of the Windows drag-and-drop adapter of the LAF OS library        *)
(* (src/os/win/dnd.cpp): the effect/operation conversions, the HGLOBAL     *)
(* lock wrapper GLocked, the transfer-medium wrapper DataWrapper, the      *)
(* content provider DragDataProviderWin and the COM drop target            *)
(* DragTargetAdapter.                                                      *)
(*                                                                         *)
(* (src/os/win/dnd.cpp): the same for the Wintab loader WintabAPI          *)
(* (src/os/win/wintab.cpp).                                                *)
(*                                                                         *)
(* Six specifications share the variables:                                 *)
(*   Spec      the session callbacks DragEnter/DragOver/DragLeave/Drop     *)
(*   SpecConv  the pure conversions as_dropeffect / as_dropoperation       *)
(*   SpecRef   AddRef / Release called from two threads                    *)
(*   SpecData  DataWrapper and GLocked inside getImage / getPaths          *)
(*   SpecContains  the format enumeration of DragDataProviderWin::contains *)
(*   SpecWintab    WintabAPI::open / loadWintab over one wintab32.dll      *)
(***************************************************************************)
EXTENDS Integers, Sequences, FiniteSets, TLC

\* ------------------------------------------------------------------ bounds

\* Number of distinct transfer objects (IDataObject) the host may hand over.
NObjs == 2

\* AddRef is not called once m_ref has reached MaxRef.
MaxRef == 4

\* The "direct" caller makes at most MaxGets calls of DataWrapper::get.
MaxGets == 3

\* A CF_HDROP payload lists at most MaxFiles entries.
MaxFiles == 3

\* A transfer object enumerates at most MaxAdvertised formats.
MaxAdvertised == 3

\* Screen points offered to a callback are WinOrigin + (a, a), a in 0..MaxCoord.
MaxCoord == 1

\* ------------------------------------------------- native / portable values

\* A 32-bit word (DWORD, int) is the set of the positions of its 1 bits, bit 0
\* the least significant: 0 is {}, 1 is {0}, 2 is {1}, 4 is {2},
\* 0x80000000 is {31}. a & b is the intersection, a | b the union.
DROPEFFECT_NONE == {}
DROPEFFECT_COPY == {0}
DROPEFFECT_MOVE == {1}
DROPEFFECT_LINK == {2}
DROPEFFECT_SCROLL == {31}

\* os::DropOperation enumerators (declared in os/dnd.h): None = 0, Copy = 1,
\* Move = 2, Link = 4.
OpNone == {}
OpCopy == {0}
OpMove == {1}
OpLink == {2}

S_OK == "S_OK"
E_NOTIMPL == "E_NOTIMPL"
E_UNEXPECTED == "E_UNEXPECTED"

\* The null pointer; transfer objects are 1..NObjs.
Null == 0
Objs == 1..NObjs

\* ------------------------------------------------------------ bit operators

BitAnd(a, b) == a \cap b

BitOr(a, b) == a \cup b

\* ------------------------------------------------------------- conversions

\* Mutant: the Move test writes the Copy flag.
as_dropeffect_moveAsCopy(op) ==
  LET e1 == IF BitAnd(op, OpCopy) # {} THEN BitOr(DROPEFFECT_NONE, DROPEFFECT_COPY)
            ELSE DROPEFFECT_NONE
      e2 == IF BitAnd(op, OpMove) # {} THEN BitOr(e1, DROPEFFECT_COPY) ELSE e1
      e3 == IF BitAnd(op, OpLink) # {} THEN BitOr(e2, DROPEFFECT_LINK) ELSE e2
  IN e3

as_dropeffect(op) ==
  LET e1 == IF BitAnd(op, OpCopy) # {} THEN BitOr(DROPEFFECT_NONE, DROPEFFECT_COPY)
            ELSE DROPEFFECT_NONE
      e2 == IF BitAnd(op, OpMove) # {} THEN BitOr(e1, DROPEFFECT_MOVE) ELSE e1
      e3 == IF BitAnd(op, OpLink) # {} THEN BitOr(e2, DROPEFFECT_LINK) ELSE e2
  IN e3

\* Mutant: the native word is handed on as the operation, all bits kept.
as_dropoperation_passThrough(pdwEffect) == pdwEffect

as_dropoperation(pdwEffect) ==
  LET o1 == IF BitAnd(pdwEffect, DROPEFFECT_COPY) # {} THEN BitOr({}, OpCopy) ELSE {}
      o2 == IF BitAnd(pdwEffect, DROPEFFECT_MOVE) # {} THEN BitOr(o1, OpMove) ELSE o1
      o3 == IF BitAnd(pdwEffect, DROPEFFECT_LINK) # {} THEN BitOr(o2, OpLink) ELSE o2
  IN o3

\* ------------------------------------------------------------------- state

VARIABLES
  \* DragTargetAdapter session state and its window
  hasDragTarget,   \* what m_window->hasDragTarget() answers
  m_data,          \* base::ComPtr<IDataObject> m_data: Null or an object
  m_position,      \* gfx::Point m_position, window-local
  refs,            \* per object: references the adapter's ComPtr holds on it
  last,            \* the last session callback: arguments, result, notification
  \* the conversions applied to one input (SpecConv)
  conv,
  \* the adapter's reference count and the threads using it (SpecRef)
  m_ref,           \* ULONG m_ref
  destroyed,       \* the "delete this" executed so far: <<thread, ref seen>>
  owned,           \* per thread: the references to the adapter it holds
  tpc,             \* per thread: "idle", or "released" inside Release
  tret,            \* per thread: what its last interlocked operation returned
  qi,              \* the last QueryInterface call: arguments, result, counts
  \* one provider query over one transfer object (SpecData)
  avail,           \* per format, what the transfer object offers
  pngRegistered,   \* whether RegisterClipboardFormatA("PNG") returns non-zero
  files,           \* the entries of the CF_HDROP payload
  call,            \* the query running: "getImage", "getPaths" or "direct"
  pc,              \* its position
  m_result,        \* DataWrapper::m_result
  m_medium,        \* DataWrapper::m_medium: index in media, 0 before any
  media,           \* the STGMEDIUMs GetData has delivered, in order
  glocked,         \* the GLocked objects alive, in construction order
  queried,         \* the formats passed to GetData, in order
  gets,            \* the get calls made by the "direct" caller
  img,             \* what getImage returned
  paths,           \* what getPaths returned
  \* one call of DragDataProviderWin::contains (SpecContains)
  advertised,      \* the FORMATETCs the transfer object enumerates, in order
  enumOk,          \* whether EnumFormatEtc returns S_OK
  ctype,           \* the DragDataItemType asked for
  cpos,            \* the formats IEnumFORMATETC::Next has handed out so far
  cresult,         \* "running", or the value contains returned
  \* one WintabAPI object and wintab32.dll (SpecWintab)
  m_wintabLib,     \* whether the handle m_wintabLib is non-null
  procs,           \* the entry-point pointers (file-scope) that are non-null
  dll,             \* wintab32.dll: present, passes checkDll, what it exports
  wpc,             \* position inside open, "idle" between calls
  wt               \* the last open call: its load, the entry points it invoked

sessVars == <<hasDragTarget, m_data, m_position, refs, last>>

convVars == <<conv>>

refVars == <<m_ref, destroyed, owned, tpc, tret, qi>>

dataVars == <<avail, pngRegistered, files, call, pc, m_result, m_medium, media,
              glocked, queried, gets, img, paths>>

contVars == <<advertised, enumOk, ctype, cpos, cresult>>

wtVars == <<m_wintabLib, procs, dll, wpc, wt>>

vars == <<sessVars, convVars, refVars, dataVars, contVars, wtVars>>

\* ------------------------------------------------------ session: helpers

\* Client-area origin of the window on the screen (ScreenToClient subtracts it).
WinOrigin == <<3, 2>>

\* The screen points a callback may receive.
ScreenPts == { <<WinOrigin[1] + a, WinOrigin[2] + a>> : a \in 0..MaxCoord }

drag_position(pt) == <<pt[1] - WinOrigin[1], pt[2] - WinOrigin[2]>>

\* gfx::Point's default constructor.
InitialPosition == <<0, 0>>

\* Effect words the host passes in *pdwEffect.
EffectArgs == { DROPEFFECT_NONE, DROPEFFECT_COPY,
                DROPEFFECT_COPY \cup DROPEFFECT_MOVE \cup DROPEFFECT_LINK,
                DROPEFFECT_SCROLL \cup DROPEFFECT_MOVE }

\* Operations the window's handler may leave in ev.dropResult().
DropResults == SUBSET (OpCopy \cup OpMove \cup OpLink)

\* ComPtr assignment m_data = ComPtr(p): the new pointer is AddRef'ed, the
\* pointer held before is Release'd.
ComPtrAssign(r, old, new) ==
  LET r1 == IF new # Null THEN [r EXCEPT ![new] = @ + 1] ELSE r
  IN IF old # Null THEN [r1 EXCEPT ![old] = @ - 1] ELSE r1

\* ComPtr reset() / assignment of nullptr: the held pointer is Release'd.
ComPtrReset(r, cur) ==
  IF cur # Null THEN [r EXCEPT ![cur] = @ - 1] ELSE r

\* The record of a callback holds, beside what the callback read and returned,
\* the operation the window's handler left in ev.dropResult() (res).
\* The notification a callback sent to the window: which one, the object the
\* provider of the event wraps (data), the event's operation and position, and
\* the object the adapter holds while the handler runs (held).
NoEvent == [kind |-> "none", data |-> Null, op |-> OpNone, pos |-> InitialPosition,
            held |-> Null]

\* The record kept of a callback that returned before doing anything.
Rejected(name, hr, arg, effIn) ==
  [op |-> name, hr |-> hr, hadTarget |-> hasDragTarget, arg |-> arg,
   effIn |-> effIn, effOut |-> effIn, res |-> {}, preData |-> m_data,
   prePos |-> m_position, ev |-> NoEvent]

\* ------------------------------------------------------ session: actions

SessInit ==
  /\ hasDragTarget \in BOOLEAN
  /\ m_data = Null
  /\ m_position = InitialPosition
  /\ refs = [o \in Objs |-> 0]
  /\ last = [op |-> "none", hr |-> S_OK, hadTarget |-> hasDragTarget,
             arg |-> Null, effIn |-> {}, effOut |-> {}, res |-> {},
             preData |-> Null,
             prePos |-> InitialPosition, ev |-> NoEvent]

\* Window::setDragTarget: the application installs or removes the target.
SetDragTarget(b) ==
  /\ UNCHANGED <<convVars, refVars, dataVars, contVars, wtVars>>
  /\ hasDragTarget # b
  /\ hasDragTarget' = b
  /\ UNCHANGED <<m_data, m_position, refs, last>>

\* Mutant: *pdwEffect is left as the host passed it.
DragEnter_noWriteBack(pDataObj, pt, effIn, res) ==
  /\ UNCHANGED <<convVars, refVars, dataVars, contVars, wtVars>>
  /\ IF ~hasDragTarget
     THEN /\ last' = Rejected("DragEnter", E_NOTIMPL, pDataObj, effIn)
          /\ UNCHANGED <<hasDragTarget, m_data, m_position, refs>>
     ELSE /\ m_data' = pDataObj
          /\ refs' = ComPtrAssign(refs, m_data, pDataObj)
          /\ IF pDataObj = Null
             THEN /\ last' = Rejected("DragEnter", E_UNEXPECTED, pDataObj, effIn)
                  /\ UNCHANGED <<hasDragTarget, m_position>>
             ELSE /\ m_position' = drag_position(pt)
                  /\ last' = [op |-> "DragEnter", hr |-> S_OK, hadTarget |-> TRUE,
                              arg |-> pDataObj, effIn |-> effIn,
                              effOut |-> effIn, res |-> res,
                              preData |-> m_data, prePos |-> m_position,
                              ev |-> [kind |-> "notifyDragEnter", data |-> pDataObj,
                                      op |-> as_dropoperation(effIn),
                                      pos |-> drag_position(pt),
                                      held |-> pDataObj]]
                  /\ UNCHANGED hasDragTarget

DragEnter(pDataObj, pt, effIn, res) ==
  /\ UNCHANGED <<convVars, refVars, dataVars, contVars, wtVars>>
  /\ IF ~hasDragTarget
     THEN /\ last' = Rejected("DragEnter", E_NOTIMPL, pDataObj, effIn)
          /\ UNCHANGED <<hasDragTarget, m_data, m_position, refs>>
     ELSE /\ m_data' = pDataObj
          /\ refs' = ComPtrAssign(refs, m_data, pDataObj)
          /\ IF pDataObj = Null
             THEN /\ last' = Rejected("DragEnter", E_UNEXPECTED, pDataObj, effIn)
                  /\ UNCHANGED <<hasDragTarget, m_position>>
             ELSE /\ m_position' = drag_position(pt)
                  /\ last' = [op |-> "DragEnter", hr |-> S_OK, hadTarget |-> TRUE,
                              arg |-> pDataObj, effIn |-> effIn,
                              effOut |-> as_dropeffect(res), res |-> res,
                              preData |-> m_data, prePos |-> m_position,
                              ev |-> [kind |-> "notifyDragEnter", data |-> pDataObj,
                                      op |-> as_dropoperation(effIn),
                                      pos |-> drag_position(pt),
                                      held |-> pDataObj]]
                  /\ UNCHANGED hasDragTarget

\* Mutant: the hasDragTarget() test is missing.
DragOver_noTargetTest(pt, effIn, res) ==
  /\ UNCHANGED <<convVars, refVars, dataVars, contVars, wtVars>>
  /\ m_position' = drag_position(pt)
  /\ last' = [op |-> "DragOver", hr |-> S_OK, hadTarget |-> hasDragTarget,
              arg |-> Null, effIn |-> effIn,
              effOut |-> as_dropeffect(res), res |-> res,
              preData |-> m_data, prePos |-> m_position,
              ev |-> [kind |-> "notifyDrag", data |-> m_data,
                      op |-> as_dropoperation(effIn),
                      pos |-> drag_position(pt),
                      held |-> m_data]]
  /\ UNCHANGED <<hasDragTarget, m_data, refs>>

\* Mutant: the held object is released after notifyDrag.
DragOver_resetsData(pt, effIn, res) ==
  /\ UNCHANGED <<convVars, refVars, dataVars, contVars, wtVars>>
  /\ IF ~hasDragTarget
     THEN /\ last' = Rejected("DragOver", E_NOTIMPL, Null, effIn)
          /\ UNCHANGED <<hasDragTarget, m_data, m_position, refs>>
     ELSE /\ m_position' = drag_position(pt)
          /\ last' = [op |-> "DragOver", hr |-> S_OK, hadTarget |-> TRUE,
                      arg |-> Null, effIn |-> effIn,
                      effOut |-> as_dropeffect(res), res |-> res,
                      preData |-> m_data, prePos |-> m_position,
                      ev |-> [kind |-> "notifyDrag", data |-> m_data,
                              op |-> as_dropoperation(effIn),
                              pos |-> drag_position(pt),
                              held |-> m_data]]
          /\ m_data' = Null
          /\ refs' = ComPtrReset(refs, m_data)
          /\ UNCHANGED hasDragTarget

DragOver(pt, effIn, res) ==
  /\ UNCHANGED <<convVars, refVars, dataVars, contVars, wtVars>>
  /\ IF ~hasDragTarget
     THEN /\ last' = Rejected("DragOver", E_NOTIMPL, Null, effIn)
          /\ UNCHANGED <<hasDragTarget, m_data, m_position, refs>>
     ELSE /\ m_position' = drag_position(pt)
          /\ last' = [op |-> "DragOver", hr |-> S_OK, hadTarget |-> TRUE,
                      arg |-> Null, effIn |-> effIn,
                      effOut |-> as_dropeffect(res), res |-> res,
                      preData |-> m_data, prePos |-> m_position,
                      ev |-> [kind |-> "notifyDrag", data |-> m_data,
                              op |-> as_dropoperation(effIn),
                              pos |-> drag_position(pt),
                              held |-> m_data]]
          /\ UNCHANGED <<hasDragTarget, m_data, refs>>

\* Mutant: the reset of m_data is missing.
DragLeave_noReset ==
  /\ UNCHANGED <<convVars, refVars, dataVars, contVars, wtVars>>
  /\ IF ~hasDragTarget
     THEN /\ last' = Rejected("DragLeave", E_NOTIMPL, Null, {})
          /\ UNCHANGED <<hasDragTarget, m_data, m_position, refs>>
     ELSE /\ last' = [op |-> "DragLeave", hr |-> S_OK, hadTarget |-> TRUE,
                      arg |-> Null, effIn |-> {}, effOut |-> {}, res |-> {},
                      preData |-> m_data, prePos |-> m_position,
                      ev |-> [kind |-> "notifyDragLeave", data |-> m_data,
                              op |-> OpNone, pos |-> m_position,
                              held |-> m_data]]
          /\ UNCHANGED <<hasDragTarget, m_data, m_position, refs>>

\* Mutant: m_data.reset() runs before notifyDragLeave.
DragLeave_resetsFirst ==
  /\ UNCHANGED <<convVars, refVars, dataVars, contVars, wtVars>>
  /\ IF ~hasDragTarget
     THEN /\ last' = Rejected("DragLeave", E_NOTIMPL, Null, {})
          /\ UNCHANGED <<hasDragTarget, m_data, m_position, refs>>
     ELSE /\ last' = [op |-> "DragLeave", hr |-> S_OK, hadTarget |-> TRUE,
                      arg |-> Null, effIn |-> {}, effOut |-> {}, res |-> {},
                      preData |-> m_data, prePos |-> m_position,
                      ev |-> [kind |-> "notifyDragLeave", data |-> m_data,
                              op |-> OpNone, pos |-> m_position,
                              held |-> Null]]
          /\ m_data' = Null
          /\ refs' = ComPtrReset(refs, m_data)
          /\ UNCHANGED <<hasDragTarget, m_position>>

DragLeave ==
  /\ UNCHANGED <<convVars, refVars, dataVars, contVars, wtVars>>
  /\ IF ~hasDragTarget
     THEN /\ last' = Rejected("DragLeave", E_NOTIMPL, Null, {})
          /\ UNCHANGED <<hasDragTarget, m_data, m_position, refs>>
     ELSE /\ last' = [op |-> "DragLeave", hr |-> S_OK, hadTarget |-> TRUE,
                      arg |-> Null, effIn |-> {}, effOut |-> {}, res |-> {},
                      preData |-> m_data, prePos |-> m_position,
                      ev |-> [kind |-> "notifyDragLeave", data |-> m_data,
                              op |-> OpNone, pos |-> m_position,
                              held |-> m_data]]
          /\ m_data' = Null
          /\ refs' = ComPtrReset(refs, m_data)
          /\ UNCHANGED <<hasDragTarget, m_position>>

\* Mutant: m_data is not cleared after notifyDrop.
Drop_noReset(pDataObj, pt, effIn, res) ==
  /\ UNCHANGED <<convVars, refVars, dataVars, contVars, wtVars>>
  /\ IF ~hasDragTarget
     THEN /\ last' = Rejected("Drop", E_NOTIMPL, pDataObj, effIn)
          /\ UNCHANGED <<hasDragTarget, m_data, m_position, refs>>
     ELSE IF pDataObj = Null
          THEN /\ m_data' = Null
               /\ refs' = ComPtrAssign(refs, m_data, Null)
               /\ last' = Rejected("Drop", E_UNEXPECTED, pDataObj, effIn)
               /\ UNCHANGED <<hasDragTarget, m_position>>
          ELSE /\ m_position' = drag_position(pt)
               /\ last' = [op |-> "Drop", hr |-> S_OK, hadTarget |-> TRUE,
                           arg |-> pDataObj, effIn |-> effIn,
                           effOut |-> as_dropeffect(res), res |-> res,
                           preData |-> m_data, prePos |-> m_position,
                           ev |-> [kind |-> "notifyDrop", data |-> pDataObj,
                                   op |-> as_dropoperation(effIn),
                                   pos |-> drag_position(pt),
                                   held |-> pDataObj]]
               /\ m_data' = pDataObj
               /\ refs' = ComPtrAssign(refs, m_data, pDataObj)
               /\ UNCHANGED hasDragTarget

\* Mutant: m_data forgets the dropped object without releasing it.
Drop_detaches(pDataObj, pt, effIn, res) ==
  /\ UNCHANGED <<convVars, refVars, dataVars, contVars, wtVars>>
  /\ IF ~hasDragTarget
     THEN /\ last' = Rejected("Drop", E_NOTIMPL, pDataObj, effIn)
          /\ UNCHANGED <<hasDragTarget, m_data, m_position, refs>>
     ELSE IF pDataObj = Null
          THEN /\ m_data' = Null
               /\ refs' = ComPtrAssign(refs, m_data, Null)
               /\ last' = Rejected("Drop", E_UNEXPECTED, pDataObj, effIn)
               /\ UNCHANGED <<hasDragTarget, m_position>>
          ELSE /\ m_position' = drag_position(pt)
               /\ last' = [op |-> "Drop", hr |-> S_OK, hadTarget |-> TRUE,
                           arg |-> pDataObj, effIn |-> effIn,
                           effOut |-> as_dropeffect(res), res |-> res,
                           preData |-> m_data, prePos |-> m_position,
                           ev |-> [kind |-> "notifyDrop", data |-> pDataObj,
                                   op |-> as_dropoperation(effIn),
                                   pos |-> drag_position(pt),
                                   held |-> pDataObj]]
               /\ m_data' = Null
               /\ refs' = ComPtrAssign(refs, m_data, pDataObj)
               /\ UNCHANGED hasDragTarget

Drop(pDataObj, pt, effIn, res) ==
  /\ UNCHANGED <<convVars, refVars, dataVars, contVars, wtVars>>
  /\ IF ~hasDragTarget
     THEN /\ last' = Rejected("Drop", E_NOTIMPL, pDataObj, effIn)
          /\ UNCHANGED <<hasDragTarget, m_data, m_position, refs>>
     ELSE IF pDataObj = Null
          THEN /\ m_data' = Null
               /\ refs' = ComPtrAssign(refs, m_data, Null)
               /\ last' = Rejected("Drop", E_UNEXPECTED, pDataObj, effIn)
               /\ UNCHANGED <<hasDragTarget, m_position>>
          ELSE /\ m_position' = drag_position(pt)
               /\ last' = [op |-> "Drop", hr |-> S_OK, hadTarget |-> TRUE,
                           arg |-> pDataObj, effIn |-> effIn,
                           effOut |-> as_dropeffect(res), res |-> res,
                           preData |-> m_data, prePos |-> m_position,
                           ev |-> [kind |-> "notifyDrop", data |-> pDataObj,
                                   op |-> as_dropoperation(effIn),
                                   pos |-> drag_position(pt),
                                   held |-> pDataObj]]
               /\ m_data' = Null
               /\ refs' = ComPtrReset(ComPtrAssign(refs, m_data, pDataObj), pDataObj)
               /\ UNCHANGED hasDragTarget

SessNext ==
  \/ \E b \in BOOLEAN : SetDragTarget(b)
  \/ \E o \in Objs \cup {Null}, pt \in ScreenPts, e \in EffectArgs, r \in DropResults :
       DragEnter(o, pt, e, r)
  \/ \E pt \in ScreenPts, e \in EffectArgs, r \in DropResults : DragOver(pt, e, r)
  \/ DragLeave
  \/ \E o \in Objs \cup {Null}, pt \in ScreenPts, e \in EffectArgs, r \in DropResults :
       Drop(o, pt, e, r)

\* ------------------------------------------------- conversions: SpecConv

\* Bits beyond Copy/Move/Link an input word may carry: bit 3 (value 8, set in
\* no enumerator) and bit 31 (DROPEFFECT_SCROLL).
ExtraBits == {3} \cup DROPEFFECT_SCROLL

ConvInputs == SUBSET ({0, 1, 2} \cup ExtraBits)

ConvIdle == conv = [pc |-> "off", dir |-> "none", input |-> {}, out |-> {}, back |-> {}]

\* dir = "op": a portable operation is encoded, then decoded;
\* dir = "effect": a native effect word is decoded, then encoded.
ConvInit ==
  \E d \in {"op", "effect"}, x \in ConvInputs :
    conv = [pc |-> "input", dir |-> d, input |-> x, out |-> {}, back |-> {}]

ConvApply ==
  /\ UNCHANGED <<sessVars, refVars, dataVars, contVars, wtVars>>
  /\ conv.pc = "input"
  /\ conv' = [conv EXCEPT !.pc = "out",
                          !.out = IF conv.dir = "op" THEN as_dropeffect(conv.input)
                                  ELSE as_dropoperation(conv.input)]

ConvBack ==
  /\ UNCHANGED <<sessVars, refVars, dataVars, contVars, wtVars>>
  /\ conv.pc = "out"
  /\ conv' = [conv EXCEPT !.pc = "back",
                          !.back = IF conv.dir = "op" THEN as_dropoperation(conv.out)
                                   ELSE as_dropeffect(conv.out)]

ConvNext == ConvApply \/ ConvBack

\* --------------------------------------------- reference count: SpecRef

Threads == {1, 2}

RECURSIVE SumOwned(_, _)
SumOwned(f, S) ==
  IF S = {} THEN 0
  ELSE LET t == CHOOSE x \in S : TRUE IN f[t] + SumOwned(f, S \ {t})

NoRet == [op |-> "none", val |-> 0, after |-> 0]

NoQuery == [riid |-> "none", ppvArg |-> FALSE, hr |-> "none", ppv |-> "untouched",
            before |-> 0, after |-> 0, thread |-> 0]

RefIdle ==
  /\ m_ref = 0
  /\ destroyed = <<>>
  /\ owned = [t \in Threads |-> 0]
  /\ tpc = [t \in Threads |-> "off"]
  /\ tret = [t \in Threads |-> NoRet]
  /\ qi = NoQuery

\* The count equals the references handed out: each thread starts with some,
\* at least one in all.
RefInit ==
  /\ owned \in [Threads -> 0..MaxRef]
  /\ SumOwned(owned, Threads) \in 1..MaxRef
  /\ m_ref = SumOwned(owned, Threads)
  /\ destroyed = <<>>
  /\ tpc = [t \in Threads |-> "idle"]
  /\ tret = [t \in Threads |-> NoRet]
  /\ qi = NoQuery

\* Mutant: the count before the increment is returned.
AddRef_returnsOld(t) ==
  /\ UNCHANGED <<sessVars, convVars, dataVars, contVars, wtVars>>
  /\ tpc[t] = "idle"
  /\ owned[t] >= 1
  /\ m_ref < MaxRef
  /\ m_ref' = m_ref + 1
  /\ tret' = [tret EXCEPT ![t] = [op |-> "AddRef", val |-> m_ref, after |-> m_ref']]
  /\ owned' = [owned EXCEPT ![t] = @ + 1]
  /\ UNCHANGED <<destroyed, tpc, qi>>

\* A thread calls AddRef through a reference it holds; InterlockedIncrement
\* adds one and returns the resulting value in one atomic step.
AddRef(t) ==
  /\ UNCHANGED <<sessVars, convVars, dataVars, contVars, wtVars>>
  /\ tpc[t] = "idle"
  /\ owned[t] >= 1
  /\ m_ref < MaxRef
  /\ m_ref' = m_ref + 1
  /\ tret' = [tret EXCEPT ![t] = [op |-> "AddRef", val |-> m_ref', after |-> m_ref']]
  /\ owned' = [owned EXCEPT ![t] = @ + 1]
  /\ UNCHANGED <<destroyed, tpc, qi>>

\* Release, first half: InterlockedDecrement subtracts one and returns the
\* resulting value into the local ref, atomically. The thread gives up one of
\* its references.
ReleaseDecrement(t) ==
  /\ UNCHANGED <<sessVars, convVars, dataVars, contVars, wtVars>>
  /\ tpc[t] = "idle"
  /\ owned[t] >= 1
  /\ m_ref' = m_ref - 1
  /\ tret' = [tret EXCEPT ![t] = [op |-> "Release", val |-> m_ref', after |-> m_ref']]
  /\ owned' = [owned EXCEPT ![t] = @ - 1]
  /\ tpc' = [tpc EXCEPT ![t] = "released"]
  /\ UNCHANGED <<destroyed, qi>>

\* Mutant: the test reads m_ref again instead of the value the decrement
\* returned.
ReleaseTest_rereads(t) ==
  /\ UNCHANGED <<sessVars, convVars, dataVars, contVars, wtVars>>
  /\ tpc[t] = "released"
  /\ destroyed' = IF m_ref = 0 THEN Append(destroyed, <<t, tret[t].val>>)
                  ELSE destroyed
  /\ tpc' = [tpc EXCEPT ![t] = "idle"]
  /\ UNCHANGED <<m_ref, owned, tret, qi>>

\* Release, second half: if (0 == ref) delete this; return ref.
ReleaseTest(t) ==
  /\ UNCHANGED <<sessVars, convVars, dataVars, contVars, wtVars>>
  /\ tpc[t] = "released"
  /\ destroyed' = IF tret[t].val = 0 THEN Append(destroyed, <<t, tret[t].val>>)
                  ELSE destroyed
  /\ tpc' = [tpc EXCEPT ![t] = "idle"]
  /\ UNCHANGED <<m_ref, owned, tret, qi>>

E_INVALIDARG == "E_INVALIDARG"
E_NOINTERFACE == "E_NOINTERFACE"
NOERROR == S_OK

IID_IDropTarget == "IID_IDropTarget"
IID_IUnknown == "IID_IUnknown"

\* The identities a caller may ask for: the two the adapter answers and two
\* it does not implement.
InterfaceIds == {IID_IDropTarget, IID_IUnknown, "IID_IDropSource", "IID_IDataObject"}

\* Mutant: the adapter is stored in *ppv without AddRef.
QueryInterface_noAddRef(t, riid, ppvArg) ==
  /\ UNCHANGED <<sessVars, convVars, dataVars, contVars, wtVars>>
  /\ tpc[t] = "idle"
  /\ owned[t] >= 1
  /\ IF ~ppvArg
     THEN /\ qi' = [riid |-> riid, ppvArg |-> ppvArg, hr |-> E_INVALIDARG,
                    ppv |-> "untouched", before |-> m_ref, after |-> m_ref,
                    thread |-> t]
          /\ UNCHANGED <<m_ref, owned>>
     ELSE IF riid # IID_IDropTarget /\ riid # IID_IUnknown
          THEN /\ qi' = [riid |-> riid, ppvArg |-> ppvArg, hr |-> E_NOINTERFACE,
                         ppv |-> "null", before |-> m_ref, after |-> m_ref,
                         thread |-> t]
               /\ UNCHANGED <<m_ref, owned>>
          ELSE /\ m_ref < MaxRef
               /\ UNCHANGED <<m_ref, owned>>
               /\ qi' = [riid |-> riid, ppvArg |-> ppvArg, hr |-> NOERROR,
                         ppv |-> "this", before |-> m_ref, after |-> m_ref',
                         thread |-> t]
  /\ UNCHANGED <<destroyed, tpc, tret>>

\* A thread calls QueryInterface through a reference it holds. A null ppv is
\* refused; otherwise *ppv is cleared, an identity other than IDropTarget and
\* IUnknown is refused, and for those two *ppv receives the adapter and AddRef
\* is called, which gives the caller one more reference.
QueryInterface(t, riid, ppvArg) ==
  /\ UNCHANGED <<sessVars, convVars, dataVars, contVars, wtVars>>
  /\ tpc[t] = "idle"
  /\ owned[t] >= 1
  /\ IF ~ppvArg
     THEN /\ qi' = [riid |-> riid, ppvArg |-> ppvArg, hr |-> E_INVALIDARG,
                    ppv |-> "untouched", before |-> m_ref, after |-> m_ref,
                    thread |-> t]
          /\ UNCHANGED <<m_ref, owned>>
     ELSE IF riid # IID_IDropTarget /\ riid # IID_IUnknown
          THEN /\ qi' = [riid |-> riid, ppvArg |-> ppvArg, hr |-> E_NOINTERFACE,
                         ppv |-> "null", before |-> m_ref, after |-> m_ref,
                         thread |-> t]
               /\ UNCHANGED <<m_ref, owned>>
          ELSE /\ m_ref < MaxRef
               /\ m_ref' = m_ref + 1
               /\ owned' = [owned EXCEPT ![t] = @ + 1]
               /\ qi' = [riid |-> riid, ppvArg |-> ppvArg, hr |-> NOERROR,
                         ppv |-> "this", before |-> m_ref, after |-> m_ref',
                         thread |-> t]
  /\ UNCHANGED <<destroyed, tpc, tret>>

RefNext ==
  \/ \E t \in Threads : AddRef(t)
  \/ \E t \in Threads : ReleaseDecrement(t)
  \/ \E t \in Threads : ReleaseTest(t)
  \/ \E t \in Threads, riid \in InterfaceIds, ppvArg \in BOOLEAN :
       QueryInterface(t, riid, ppvArg)

\* ------------------------------------- DataWrapper and GLocked: SpecData

PNG == "PNG"
CF_DIBV5 == "CF_DIBV5"
CF_DIB == "CF_DIB"
CF_HDROP == "CF_HDROP"

Formats == {PNG, CF_DIBV5, CF_DIB, CF_HDROP}

\* What the transfer object offers for a format:
\*   "absent"  GetData does not return S_OK
\*   "nolock"  GetData returns S_OK, GlobalLock of the handle returns null
\*   "bad"     the data is delivered and locked, the decoder rejects it
\*   "good"    the data is delivered, locked and decoded
Availability == {"absent", "nolock", "bad", "good"}

\* The native strings DragQueryFile may report for an entry, as sequences of
\* UTF-16 code units: the empty string (the length query returns 0), "a" and
\* "e acute".
PathNames == {<<>>, <<97>>, <<233>>}

\* base::to_utf8 on one code unit and on a native string (code units below
\* 0x800: one byte below 0x80, two bytes otherwise).
to_utf8_unit(c) ==
  IF c < 128 THEN <<c>> ELSE <<192 + (c \div 64), 128 + (c % 64)>>

RECURSIVE to_utf8(_)
to_utf8(w) ==
  IF w = <<>> THEN <<>> ELSE to_utf8_unit(Head(w)) \o to_utf8(Tail(w))

RECURSIVE SeqsUpTo(_, _)
SeqsUpTo(S, n) ==
  IF n = 0 THEN {<<>>}
  ELSE LET shorter == SeqsUpTo(S, n - 1)
       IN shorter \cup {Append(q, x) : q \in {r \in shorter : Len(r) = n - 1}, x \in S}

DataIdle ==
  /\ avail = [f \in Formats |-> "absent"]
  /\ pngRegistered = FALSE
  /\ files = <<>>
  /\ call = "none"
  /\ pc = "off"
  /\ m_result = "-1"
  /\ m_medium = 0
  /\ media = <<>>
  /\ glocked = <<>>
  /\ queried = <<>>
  /\ gets = 0
  /\ img = "unset"
  /\ paths = <<>>

\* A transfer object can only carry the "PNG" format if that name is
\* registered, and then RegisterClipboardFormatA returns its identifier; a
\* file list is not decoded, so it is never "bad"; files are the entries of
\* the source's file list, whether or not GetData and GlobalLock deliver it.
DataInit ==
  /\ avail \in [Formats -> Availability]
  /\ pngRegistered \in BOOLEAN
  /\ avail[PNG] # "absent" => pngRegistered
  /\ avail[CF_HDROP] # "bad"
  /\ files \in SeqsUpTo(PathNames, MaxFiles)
  /\ call \in {"getImage", "getPaths", "direct"}
  /\ call # "getPaths" => files = <<>>
  /\ call = "getPaths" => (\A f \in Formats \ {CF_HDROP} : avail[f] = "absent")
  /\ pc = "start"
  /\ m_result = "-1"
  /\ m_medium = 0
  /\ media = <<>>
  /\ glocked = <<>>
  /\ queried = <<>>
  /\ gets = 0
  /\ img = "unset"
  /\ paths = <<>>

\* DataWrapper::release as it acts on the media and on m_result.
release_media(ms) ==
  IF m_result = S_OK THEN [ms EXCEPT ![m_medium].released = @ + 1] ELSE ms

release_result == IF m_result = S_OK THEN "-1" ELSE m_result

\* GLocked's constructor on the handle h of a medium of format f:
\* GlobalLock(h); the pointer is null for a null handle or a failed lock.
GlobalLock(ms, h, f) ==
  IF h # 0 /\ avail[f] # "nolock" THEN [ms EXCEPT ![h].locks = @ + 1] ELSE ms

\* ~GLocked: GlobalUnlock(m_hmem) of the GLocked g.
GlobalUnlock(ms, g) ==
  IF g.locked THEN [ms EXCEPT ![g.m_hmem].locks = @ - 1] ELSE ms

\* Mutant: get does not release the medium held from the previous call.
get_noRelease(name, f) ==
  LET ok == avail[f] # "absent"
      ms2 == IF ok THEN Append(media, [fmt |-> f, released |-> 0, locks |-> 0])
             ELSE media
      h == IF ok THEN Len(ms2) ELSE 0
  IN [m_result |-> IF ok THEN S_OK ELSE "FAIL",
      m_medium |-> IF ok THEN h ELSE m_medium,
      media |-> GlobalLock(ms2, h, f),
      glocked |-> Append(glocked, [name |-> name, m_hmem |-> h,
                                   locked |-> h # 0 /\ avail[f] # "nolock"]),
      queried |-> Append(queried, f)]

\* DataWrapper::get<T>(cfmt): release(), GetData into m_medium, and the
\* GLocked built over m_medium.hGlobal (over nullptr when GetData failed).
\* The value is the state it leaves: the wrapper's fields, the media, the
\* GLocked objects alive (the new one last) and the formats queried.
get(name, f) ==
  LET ms1 == release_media(media)
      ok == avail[f] # "absent"
      ms2 == IF ok THEN Append(ms1, [fmt |-> f, released |-> 0, locks |-> 0])
             ELSE ms1
      h == IF ok THEN Len(ms2) ELSE 0
  IN [m_result |-> IF ok THEN S_OK ELSE "FAIL",
      m_medium |-> IF ok THEN h ELSE m_medium,
      media |-> GlobalLock(ms2, h, f),
      glocked |-> Append(glocked, [name |-> name, m_hmem |-> h,
                                   locked |-> h # 0 /\ avail[f] # "nolock"]),
      queried |-> Append(queried, f)]

\* The state a get call leaves becomes the next state.
Becomes(r) ==
  /\ m_result' = r.m_result
  /\ m_medium' = r.m_medium
  /\ media' = r.media
  /\ glocked' = r.glocked
  /\ queried' = r.queried

Top(q) == q[Len(q)]

Pop(q) == SubSeq(q, 1, Len(q) - 1)

envVars == <<avail, pngRegistered, files, call>>

\* getImage: DataWrapper data(m_data); png_format = RegisterClipboardFormatA.
getImage_start ==
  /\ UNCHANGED <<sessVars, convVars, refVars, contVars, wtVars>>
  /\ call = "getImage" /\ pc = "start"
  /\ pc' = IF pngRegistered THEN "png_get" ELSE "b5_get"
  /\ UNCHANGED <<envVars, m_result, m_medium, media, glocked, queried, gets, img, paths>>

getImage_png_get ==
  /\ UNCHANGED <<sessVars, convVars, refVars, contVars, wtVars>>
  /\ call = "getImage" /\ pc = "png_get"
  /\ Becomes(get("png_handle", PNG))
  /\ pc' = "png_test"
  /\ UNCHANGED <<envVars, gets, img, paths>>

\* if (png_handle != nullptr && read_png(...)) return makeSurface(img);
\* otherwise the block ends and png_handle is destroyed.
getImage_png_test ==
  /\ UNCHANGED <<sessVars, convVars, refVars, contVars, wtVars>>
  /\ call = "getImage" /\ pc = "png_test"
  /\ IF Top(glocked).locked /\ avail[PNG] = "good"
     THEN /\ img' = PNG
          /\ pc' = "unwind"
          /\ UNCHANGED <<media, glocked>>
     ELSE /\ media' = GlobalUnlock(media, Top(glocked))
          /\ glocked' = Pop(glocked)
          /\ pc' = "b5_get"
          /\ UNCHANGED img
  /\ UNCHANGED <<envVars, m_result, m_medium, queried, gets, paths>>

getImage_b5_get ==
  /\ UNCHANGED <<sessVars, convVars, refVars, contVars, wtVars>>
  /\ call = "getImage" /\ pc = "b5_get"
  /\ Becomes(get("b5", CF_DIBV5))
  /\ pc' = "b5_test"
  /\ UNCHANGED <<envVars, gets, img, paths>>

\* Mutant: the result of to_image is not tested.
getImage_b5_test_ignoresDecode ==
  /\ UNCHANGED <<sessVars, convVars, refVars, contVars, wtVars>>
  /\ call = "getImage" /\ pc = "b5_test"
  /\ IF Top(glocked).locked
     THEN /\ img' = CF_DIBV5
          /\ pc' = "unwind"
     ELSE /\ pc' = "hbi_get"
          /\ UNCHANGED img
  /\ UNCHANGED <<envVars, m_result, m_medium, media, glocked, queried, gets, paths>>

\* if (b5 != nullptr) { if (bi.to_image(img)) return makeSurface(img); }
\* b5 is declared in the function's scope: it stays alive.
getImage_b5_test ==
  /\ UNCHANGED <<sessVars, convVars, refVars, contVars, wtVars>>
  /\ call = "getImage" /\ pc = "b5_test"
  /\ IF Top(glocked).locked /\ avail[CF_DIBV5] = "good"
     THEN /\ img' = CF_DIBV5
          /\ pc' = "unwind"
     ELSE /\ pc' = "hbi_get"
          /\ UNCHANGED img
  /\ UNCHANGED <<envVars, m_result, m_medium, media, glocked, queried, gets, paths>>

getImage_hbi_get ==
  /\ UNCHANGED <<sessVars, convVars, refVars, contVars, wtVars>>
  /\ call = "getImage" /\ pc = "hbi_get"
  /\ Becomes(get("hbi", CF_DIB))
  /\ pc' = "hbi_test"
  /\ UNCHANGED <<envVars, gets, img, paths>>

\* if (hbi != nullptr) { if (bi.to_image(img)) return makeSurface(img); }
\* return nullptr;
getImage_hbi_test ==
  /\ UNCHANGED <<sessVars, convVars, refVars, contVars, wtVars>>
  /\ call = "getImage" /\ pc = "hbi_test"
  /\ img' = IF Top(glocked).locked /\ avail[CF_DIB] = "good" THEN CF_DIB ELSE "null"
  /\ pc' = "unwind"
  /\ UNCHANGED <<envVars, m_result, m_medium, media, glocked, queried, gets, paths>>

\* getPaths: base::paths files; DataWrapper data(m_data).
getPaths_start ==
  /\ UNCHANGED <<sessVars, convVars, refVars, contVars, wtVars>>
  /\ call = "getPaths" /\ pc = "start"
  /\ pc' = "hdrop_get"
  /\ UNCHANGED <<envVars, m_result, m_medium, media, glocked, queried, gets, img, paths>>

getPaths_hdrop_get ==
  /\ UNCHANGED <<sessVars, convVars, refVars, contVars, wtVars>>
  /\ call = "getPaths" /\ pc = "hdrop_get"
  /\ Becomes(get("hdrop", CF_HDROP))
  /\ pc' = "hdrop_loop"
  /\ UNCHANGED <<envVars, gets, img, paths>>

\* Mutant: the loop ends at the first entry whose length query returns 0.
RECURSIVE QueriedPaths_stopsAtEmpty(_)
QueriedPaths_stopsAtEmpty(fs) ==
  IF fs = <<>> THEN <<>>
  ELSE IF Len(Head(fs)) > 0
       THEN <<to_utf8(Head(fs))>> \o QueriedPaths_stopsAtEmpty(Tail(fs))
       ELSE <<>>

\* The loop over DragQueryFile: the entries are visited in index order and an
\* entry is decoded and pushed when its length query returns more than 0.
RECURSIVE QueriedPaths(_)
QueriedPaths(fs) ==
  IF fs = <<>> THEN <<>>
  ELSE IF Len(Head(fs)) > 0
       THEN <<to_utf8(Head(fs))>> \o QueriedPaths(Tail(fs))
       ELSE QueriedPaths(Tail(fs))

\* Mutant: the entries are enumerated without the test hdrop != nullptr.
getPaths_hdrop_loop_noNullTest ==
  /\ UNCHANGED <<sessVars, convVars, refVars, contVars, wtVars>>
  /\ call = "getPaths" /\ pc = "hdrop_loop"
  /\ paths' = QueriedPaths(files)
  /\ pc' = "unwind"
  /\ UNCHANGED <<envVars, m_result, m_medium, media, glocked, queried, gets, img>>

getPaths_hdrop_loop ==
  /\ UNCHANGED <<sessVars, convVars, refVars, contVars, wtVars>>
  /\ call = "getPaths" /\ pc = "hdrop_loop"
  /\ paths' = IF Top(glocked).locked THEN QueriedPaths(files) ELSE <<>>
  /\ pc' = "unwind"
  /\ UNCHANGED <<envVars, m_result, m_medium, media, glocked, queried, gets, img>>

\* A caller of DataWrapper alone: any formats in any order, each GLocked a
\* temporary destroyed at the end of the call's statement.
direct_get(f) ==
  /\ UNCHANGED <<sessVars, convVars, refVars, contVars, wtVars>>
  /\ call = "direct" /\ pc = "start"
  /\ gets < MaxGets
  /\ LET r == get("tmp", f)
     IN /\ m_result' = r.m_result
        /\ m_medium' = r.m_medium
        /\ media' = GlobalUnlock(r.media, Top(r.glocked))
        /\ queried' = r.queried
  /\ gets' = gets + 1
  /\ UNCHANGED <<envVars, pc, glocked, img, paths>>

direct_end ==
  /\ UNCHANGED <<sessVars, convVars, refVars, contVars, wtVars>>
  /\ call = "direct" /\ pc = "start"
  /\ pc' = "unwind"
  /\ UNCHANGED <<envVars, m_result, m_medium, media, glocked, queried, gets, img, paths>>

\* Leaving the function: the GLocked objects are destroyed in the reverse
\* order of their construction ...
unwind_GLocked ==
  /\ UNCHANGED <<sessVars, convVars, refVars, contVars, wtVars>>
  /\ pc = "unwind" /\ glocked # <<>>
  /\ media' = GlobalUnlock(media, Top(glocked))
  /\ glocked' = Pop(glocked)
  /\ UNCHANGED <<envVars, pc, m_result, m_medium, queried, gets, img, paths>>

\* ... and the DataWrapper, constructed before them, last: ~DataWrapper
\* calls release().
unwind_DataWrapper ==
  /\ UNCHANGED <<sessVars, convVars, refVars, contVars, wtVars>>
  /\ pc = "unwind" /\ glocked = <<>>
  /\ media' = release_media(media)
  /\ m_result' = release_result
  /\ pc' = "done"
  /\ UNCHANGED <<envVars, m_medium, glocked, queried, gets, img, paths>>

DataNext ==
  \/ getImage_start
  \/ getImage_png_get
  \/ getImage_png_test
  \/ getImage_b5_get
  \/ getImage_b5_test
  \/ getImage_hbi_get
  \/ getImage_hbi_test
  \/ getPaths_start
  \/ getPaths_hdrop_get
  \/ getPaths_hdrop_loop
  \/ \E f \in Formats : direct_get(f)
  \/ direct_end
  \/ unwind_GLocked
  \/ unwind_DataWrapper

\* ------------------------------- DragDataProviderWin::contains: SpecContains

\* Formats beside CF_HDROP, CF_DIBV5, CF_DIB and the registered "PNG": two
\* registered formats whose names differ from "PNG" in case and in length, and
\* a predefined format, which has no registered name.
REG_png == "REG_png"
REG_PNGX == "REG_PNGX"
CF_TEXT == "CF_TEXT"

AdvFormats == {CF_HDROP, CF_DIBV5, CF_DIB, PNG, REG_png, REG_PNGX, CF_TEXT}

\* GetClipboardFormatNameA followed by name[namelen] = '\0': the registered
\* name, or the empty string when the call returns 0.
GetClipboardFormatNameA(f) ==
  CASE f = PNG -> "PNG"
    [] f = REG_png -> "png"
    [] f = REG_PNGX -> "PNGX"
    [] OTHER -> ""

ItemTypes == {"Paths", "Image"}

ContIdle ==
  /\ advertised = <<>>
  /\ enumOk = FALSE
  /\ ctype = "Paths"
  /\ cpos = 0
  /\ cresult = "off"

ContInit ==
  /\ advertised \in SeqsUpTo(AdvFormats, MaxAdvertised)
  /\ enumOk \in BOOLEAN
  /\ ctype \in ItemTypes
  /\ cpos = 0
  /\ cresult = "start"

\* if (m_data->EnumFormatEtc(DATADIR_GET, &formats) != S_OK) return false;
contains_EnumFormatEtc ==
  /\ UNCHANGED <<sessVars, convVars, refVars, dataVars, wtVars>>
  /\ cresult = "start"
  /\ cresult' = IF enumOk THEN "loop" ELSE "false"
  /\ UNCHANGED <<advertised, enumOk, ctype, cpos>>

\* The switch on fmt.cfFormat: whether this format makes contains return true.
contains_case(f, type) ==
  CASE f = CF_HDROP -> type = "Paths"
    [] f = CF_DIBV5 -> type = "Image"
    [] f = CF_DIB -> type = "Image"
    [] OTHER -> GetClipboardFormatNameA(f) = "PNG" /\ type = "Image"

\* Mutant: the break of a case that does not match leaves the loop.
contains_Next_breakLeavesLoop ==
  /\ UNCHANGED <<sessVars, convVars, refVars, dataVars, wtVars>>
  /\ cresult = "loop"
  /\ IF cpos = Len(advertised)
     THEN /\ cresult' = "false"
          /\ UNCHANGED cpos
     ELSE /\ cpos' = cpos + 1
          /\ cresult' = IF contains_case(advertised[cpos + 1], ctype) THEN "true"
                        ELSE "false"
  /\ UNCHANGED <<advertised, enumOk, ctype>>

\* One turn of while (formats->Next(1, &fmt, nullptr) == S_OK): the next
\* format is examined, or Next has none left and contains returns false.
contains_Next ==
  /\ UNCHANGED <<sessVars, convVars, refVars, dataVars, wtVars>>
  /\ cresult = "loop"
  /\ IF cpos = Len(advertised)
     THEN /\ cresult' = "false"
          /\ UNCHANGED cpos
     ELSE /\ cpos' = cpos + 1
          /\ cresult' = IF contains_case(advertised[cpos + 1], ctype) THEN "true"
                        ELSE "loop"
  /\ UNCHANGED <<advertised, enumOk, ctype>>

ContNext == contains_EnumFormatEtc \/ contains_Next

\* ------------------------------------------- Wintab loader: SpecWintab

\* The entry points loadWintab resolves with get_dll_proc.
ProcNames == {"WTInfoW", "WTOpenW", "WTClose", "WTPacketsGet", "WTPacket",
              "WTOverlap", "WTQueueSizeGet", "WTQueueSizeSet"}

\* The pointers loadWintab tests before it reports success.
RequiredProcs == {"WTInfoW", "WTOpenW", "WTClose", "WTPacket",
                  "WTQueueSizeGet", "WTQueueSizeSet"}

NoOpen == [load |-> "none", ret |-> "none", called |-> {}, unresolved |-> {}]

WtIdle ==
  /\ m_wintabLib = FALSE
  /\ procs = {}
  /\ dll = [present |-> FALSE, ok |-> FALSE, exported |-> {}]
  /\ wpc = "off"
  /\ wt = NoOpen

\* WintabAPI(): m_wintabLib(nullptr); the file-scope pointers are
\* zero-initialized. The machine has any wintab32.dll or none.
WtInit ==
  /\ m_wintabLib = FALSE
  /\ procs = {}
  /\ dll \in [present : BOOLEAN, ok : BOOLEAN, exported : SUBSET ProcNames]
  /\ ~dll.present => (~dll.ok /\ dll.exported = {})
  /\ wpc = "idle"
  /\ wt = NoOpen

\* loadWintab as a function of the state it runs in: the value it returns,
\* the handle and the pointers it leaves.
loadWintab ==
  IF ~dll.present
  THEN [ret |-> FALSE, lib |-> FALSE, procs |-> procs]
  ELSE IF ~dll.ok
       THEN [ret |-> FALSE, lib |-> FALSE, procs |-> procs]
       ELSE [ret |-> RequiredProcs \subseteq dll.exported, lib |-> TRUE,
             procs |-> dll.exported]

\* The invocation of entry point p at position wpc: the record of the call,
\* and where open goes on. A call through a null pointer is undefined: the
\* process stops there or the call returns and open goes on.
Invoke(ps, next) ==
  /\ wt' = [wt EXCEPT !.called = @ \cup ps,
                      !.unresolved = @ \cup (ps \ procs)]
  /\ IF ps \subseteq procs THEN wpc' = next ELSE wpc' \in {"crashed", next}

\* open, first statement: if (!m_wintabLib && !loadWintab()) return nullptr.
open_load ==
  /\ UNCHANGED <<sessVars, convVars, refVars, dataVars, contVars>>
  /\ wpc = "idle"
  /\ UNCHANGED dll
  /\ IF m_wintabLib
     THEN /\ wt' = [load |-> "skipped", ret |-> "running", called |-> {},
                    unresolved |-> {}]
          /\ wpc' = "info"
          /\ UNCHANGED <<m_wintabLib, procs>>
     ELSE LET r == loadWintab
          IN /\ m_wintabLib' = r.lib
             /\ procs' = r.procs
             /\ wt' = [load |-> IF r.ret THEN "true" ELSE "false",
                       ret |-> IF r.ret THEN "running" ELSE "nullptr",
                       called |-> {}, unresolved |-> {}]
             /\ wpc' = IF r.ret THEN "info" ELSE "idle"

\* open, the WTInfo calls that log the interface and read the default context
\* and the pressure axis.
open_WTInfo ==
  /\ UNCHANGED <<sessVars, convVars, refVars, dataVars, contVars>>
  /\ wpc = "info"
  /\ Invoke({"WTInfoW"}, "wtopen")
  /\ UNCHANGED <<m_wintabLib, procs, dll>>

\* open, HCTX ctx = WTOpen(hwnd, &logctx, TRUE); if (!ctx) return nullptr.
open_WTOpen(ctx) ==
  /\ UNCHANGED <<sessVars, convVars, refVars, dataVars, contVars>>
  /\ wpc = "wtopen"
  /\ wt' = [wt EXCEPT !.called = @ \cup {"WTOpenW"},
                      !.unresolved = @ \cup ({"WTOpenW"} \ procs),
                      !.ret = IF ctx THEN "running" ELSE "nullptr"]
  /\ IF "WTOpenW" \in procs
     THEN wpc' = IF ctx THEN "queue" ELSE "idle"
     ELSE wpc' \in {"crashed", IF ctx THEN "queue" ELSE "idle"}
  /\ UNCHANGED <<m_wintabLib, procs, dll>>

\* open, the queue: WTQueueSizeGet, WTQueueSizeSet while the queue is smaller
\* than 128, WTQueueSizeGet again; return ctx.
open_queue(small) ==
  /\ UNCHANGED <<sessVars, convVars, refVars, dataVars, contVars>>
  /\ wpc = "queue"
  /\ LET ps == IF small THEN {"WTQueueSizeGet", "WTQueueSizeSet"}
               ELSE {"WTQueueSizeGet"}
     IN /\ wt' = [wt EXCEPT !.called = @ \cup ps,
                            !.unresolved = @ \cup (ps \ procs),
                            !.ret = "ctx"]
        /\ IF ps \subseteq procs THEN wpc' = "idle"
           ELSE wpc' \in {"crashed", "idle"}
  /\ UNCHANGED <<m_wintabLib, procs, dll>>

\* ~WintabAPI(): the library is unloaded if the handle is non-null.
WintabAPI_dtor ==
  /\ UNCHANGED <<sessVars, convVars, refVars, dataVars, contVars>>
  /\ wpc = "idle"
  /\ m_wintabLib' = FALSE
  /\ wpc' = "destroyed"
  /\ UNCHANGED <<procs, dll, wt>>

WtNext ==
  \/ open_load
  \/ open_WTInfo
  \/ \E ctx \in BOOLEAN : open_WTOpen(ctx)
  \/ \E small \in BOOLEAN : open_queue(small)
  \/ WintabAPI_dtor

\* ---------------------------------------------------------- specifications

Init == SessInit /\ ConvIdle /\ RefIdle /\ DataIdle /\ ContIdle /\ WtIdle

Next == SessNext

Spec == Init /\ [][Next]_vars

InitConv == SessInit /\ hasDragTarget /\ ConvInit /\ RefIdle /\ DataIdle /\ ContIdle /\ WtIdle

SpecConv == InitConv /\ [][ConvNext]_vars

InitRef == SessInit /\ hasDragTarget /\ ConvIdle /\ RefInit /\ DataIdle /\ ContIdle /\ WtIdle

SpecRef == InitRef /\ [][RefNext]_vars

InitData == SessInit /\ hasDragTarget /\ ConvIdle /\ RefIdle /\ DataInit /\ ContIdle /\ WtIdle

SpecData == InitData /\ [][DataNext]_vars

InitContains == SessInit /\ hasDragTarget /\ ConvIdle /\ RefIdle /\ DataIdle /\ ContInit /\ WtIdle

SpecContains == InitContains /\ [][ContNext]_vars

InitWintab == SessInit /\ hasDragTarget /\ ConvIdle /\ RefIdle /\ DataIdle /\ ContIdle /\ WtInit

SpecWintab == InitWintab /\ [][WtNext]_vars

\* ------------------------------------------------------------------ claims

Callbacks == {"DragEnter", "DragOver", "DragLeave", "Drop"}

\* C1: when Drop has run on a window that has a drag target, the adapter
\* holds no transfer-object reference once Drop has returned, whatever
\* operation the window's notifyDrop handler chose.
C1_DropReleasesReference ==
  (last.op = "Drop" /\ last.hadTarget) => m_data = Null

\* C1 witness: a Drop that notified the window, in a session whose DragEnter
\* had stored a reference, has returned and the reference is gone.
C1_Witness ==
  /\ last.op = "Drop" /\ last.hr = S_OK /\ last.ev.kind = "notifyDrop"
  /\ last.preData # Null /\ last.effOut # {}
  /\ m_data = Null

C3_NoTargetNoEffect ==
  (last.op \in Callbacks /\ ~last.hadTarget)
    => /\ last.hr = E_NOTIMPL
       /\ last.ev.kind = "none"
       /\ m_data = last.preData
       /\ m_position = last.prePos
       /\ last.effOut = last.effIn

\* C3 witness: a Drop was rejected while the adapter held a reference, a
\* position and a non-empty effect word.
C3_Witness ==
  /\ last.op = "Drop" /\ ~last.hadTarget /\ last.hr = E_NOTIMPL
  /\ last.arg # Null /\ last.effIn # {}
  /\ m_data # Null /\ m_position # InitialPosition

\* C4 as stated: DragEnter or Drop with a null transfer object returns
\* E_UNEXPECTED, notifies nobody and leaves the held reference and the stored
\* position as they were before the call.
C4_NullObjectMutatesNothing ==
  (last.op \in {"DragEnter", "Drop"} /\ last.hadTarget /\ last.arg = Null)
    => /\ last.hr = E_UNEXPECTED
       /\ last.ev.kind = "none"
       /\ m_data = last.preData
       /\ m_position = last.prePos

\* C5 as stated: whenever a DragLeave or Drop call has completed the adapter
\* holds no transfer-object reference, hasDragTarget() changing between the
\* callbacks of a session included.
C5_NoReferenceAfterLeaveOrDrop ==
  (last.op \in {"DragLeave", "Drop"}) => m_data = Null

\* C7: for each of the eight subsets of {Copy, Move, Link}, encoding then
\* decoding a portable operation, and decoding then encoding a native effect
\* word, gives back the value started from.
C7_RoundTrip ==
  (conv.pc = "back" /\ conv.input \subseteq {0, 1, 2}) => conv.back = conv.input

\* C7 witness: the native word Move|Link went through both conversions.
C7_Witness ==
  /\ conv.pc = "back" /\ conv.dir = "effect"
  /\ conv.input = DROPEFFECT_MOVE \cup DROPEFFECT_LINK
  /\ conv.out = OpMove \cup OpLink
  /\ conv.back = conv.input

\* C6: AddRef and Release return the count their own atomic update produced;
\* the adapter is deleted at most once, only by a Release whose decrement
\* returned zero, only when the count is zero, and it has been deleted once
\* every reference has been released and every Release has returned.
C6_DestroyedExactlyOnce ==
  /\ \A t \in Threads : tret[t].val = tret[t].after
  /\ Len(destroyed) <= 1
  /\ \A i \in 1..Len(destroyed) : destroyed[i][2] = 0 /\ m_ref = 0
  /\ ((\A t \in Threads : tpc[t] = "idle" /\ owned[t] = 0)
        => (m_ref = 0 /\ Len(destroyed) = 1))
  /\ (Len(destroyed) = 0 => m_ref = SumOwned(owned, Threads))

\* C6 witness: both threads used AddRef and Release, thread 2 released last
\* and deleted the adapter, the count is zero.
C6_Witness ==
  /\ Len(destroyed) = 1 /\ destroyed[1][1] = 2
  /\ tret[1].op = "Release" /\ tret[1].val > 0
  /\ tret[2].op = "Release" /\ tret[2].val = 0
  /\ \A t \in Threads : tpc[t] = "idle" /\ owned[t] = 0
  /\ m_ref = 0

Unreleased == {i \in 1..Len(media) : media[i].released = 0}

\* C8: at every instant at most one medium obtained through the DataWrapper
\* is unreleased, and it is the one m_medium names while m_result is S_OK; no
\* medium is released twice; once the DataWrapper is destroyed every medium
\* obtained has been released exactly once.
C8_OneMediumReleasedOnce ==
  /\ Cardinality(Unreleased) <= 1
  /\ \A i \in Unreleased : m_result = S_OK /\ m_medium = i
  /\ \A i \in 1..Len(media) : media[i].released <= 1
  /\ pc = "done" => \A i \in 1..Len(media) : media[i].released = 1

\* C8 witness: three get calls, the second of them failed, and the
\* destruction: both media obtained are released.
C8_Witness ==
  /\ call = "direct" /\ pc = "done"
  /\ Len(queried) = 3 /\ Len(media) = 2
  /\ avail[queried[2]] = "absent"
  /\ \A i \in 1..Len(media) : media[i].released = 1

\* C9 as stated: a locked buffer is unlocked before the next query on the
\* same source and before the source is destroyed, so at most one GLocked
\* holds a lock at a time, and no medium is released while a GLocked still
\* holds a lock on it.
C9_LockedBufferScopedToQuery ==
  /\ Cardinality({i \in 1..Len(glocked) : glocked[i].locked}) <= 1
  /\ \A i \in 1..Len(media) : media[i].released > 0 => media[i].locks = 0
  /\ pc = "done" => glocked = <<>>

ImageOrder == <<PNG, CF_DIBV5, CF_DIB>>

Decodable(i) == avail[ImageOrder[i]] = "good"

\* C10: getImage passes the formats to GetData in the order PNG, CF_DIBV5,
\* CF_DIB (PNG only when it is registered) and stops at the first that is
\* delivered and decoded; the image returned comes from that format, and it is
\* null exactly when none of the three is delivered and decoded.
C10_ImagePriorityOrder ==
  (call = "getImage" /\ pc = "done") =>
    /\ \A i \in 1..3 :
         (Decodable(i) /\ \A j \in 1..(i - 1) : ~Decodable(j)) => img = ImageOrder[i]
    /\ (img = "null") <=> (\A i \in 1..3 : ~Decodable(i))
    /\ \E n \in 1..3, skip \in {0, 1} :
         /\ skip = 1 => ~pngRegistered
         /\ queried = SubSeq(ImageOrder, 1 + skip, n)
         /\ n = 3 \/ img = ImageOrder[n]

\* C10 witness: all three formats are delivered, PNG and CF_DIBV5 do not
\* decode, and the image returned is the CF_DIB one.
C10_Witness ==
  /\ call = "getImage" /\ pc = "done"
  /\ avail[PNG] = "bad" /\ avail[CF_DIBV5] = "bad" /\ avail[CF_DIB] = "good"
  /\ queried = ImageOrder
  /\ img = CF_DIB

\* What C11 expects of one advertised format for an item type.
Advertises(f, type) ==
  IF type = "Image"
  THEN f \in {CF_DIBV5, CF_DIB} \/ GetClipboardFormatNameA(f) = "PNG"
  ELSE f = CF_HDROP

\* C11: contains(Image) returns true exactly when the enumeration starts and
\* the list holds CF_DIBV5, CF_DIB or a format whose registered name is exactly
\* "PNG", contains(Paths) exactly when it starts and the list holds CF_HDROP,
\* wherever in the list the format stands; when it returns false after the
\* enumeration started, every format was examined.
C11_ContainsScansWholeList ==
  (cresult \in {"true", "false"}) =>
    /\ (cresult = "true") <=>
         (enumOk /\ \E i \in 1..Len(advertised) : Advertises(advertised[i], ctype))
    /\ (cresult = "false" /\ enumOk) => cpos = Len(advertised)
    /\ ~enumOk => cpos = 0

\* C11 witness: contains(Image) returned true for a list whose last format is
\* the registered "PNG", after a predefined format and a format named "png".
C11_Witness ==
  /\ cresult = "true" /\ ctype = "Image" /\ enumOk
  /\ advertised = <<CF_HDROP, REG_png, PNG>>
  /\ cpos = 3

\* C12: getPaths returns the empty sequence both when GetData does not
\* deliver the file-list format and when the delivered list has no entries;
\* the call runs to its end in both cases.
C12_NoFileListNoPaths ==
  (call = "getPaths" /\ pc = "done" /\ (avail[CF_HDROP] = "absent" \/ files = <<>>))
    => paths = <<>>

\* C12 witness: getPaths ended on a delivered, locked file list with zero
\* entries, its medium released.
C12_Witness ==
  /\ call = "getPaths" /\ pc = "done"
  /\ avail[CF_HDROP] = "good" /\ files = <<>>
  /\ queried = <<CF_HDROP>> /\ paths = <<>>
  /\ Len(media) = 1 /\ media[1].released = 1

\* The entry indices whose length query returns more than 0.
Kept == {i \in 1..Len(files) : Len(files[i]) > 0}

\* C18 as stated: with the file list delivered and locked, getPaths returns
\* one decoded path per enumerated entry, in enumeration order.
C18_OnePathPerEntry ==
  (call = "getPaths" /\ pc = "done" /\ avail[CF_HDROP] = "good") =>
    /\ Len(paths) = Len(files)
    /\ \A i \in 1..Len(files) : paths[i] = to_utf8(files[i])

\* C18 amended: with the file list delivered and locked, getPaths returns the
\* decoded path of each entry whose length query returns more than 0, in
\* enumeration order and with duplicates kept; entries of length 0 are left
\* out.
C18_OnePathPerNonEmptyEntry ==
  (call = "getPaths" /\ pc = "done" /\ avail[CF_HDROP] = "good") =>
    /\ Len(paths) = Cardinality(Kept)
    /\ \A i \in Kept : paths[Cardinality({j \in Kept : j <= i})] = to_utf8(files[i])

\* C18 witness: the same two-byte name twice around an entry of length 0;
\* both copies are returned, the empty entry is not.
C18_Witness ==
  /\ call = "getPaths" /\ pc = "done" /\ avail[CF_HDROP] = "good"
  /\ files = <<<<233>>, <<>>, <<233>>>>
  /\ paths = <<<<195, 169>>, <<195, 169>>>>

\* C13: a QueryInterface call with a non-null output pointer returns success
\* exactly for the IDropTarget and IUnknown identities, and then the output
\* holds the adapter and the count is one more than before the call; for any
\* other identity it returns E_NOINTERFACE, the output is null and the count
\* is what it was.
C13_QueryInterfaceAnswersTwoIdentities ==
  (qi.riid # "none" /\ qi.ppvArg) =>
    /\ (qi.hr = NOERROR) <=> (qi.riid \in {IID_IDropTarget, IID_IUnknown})
    /\ (qi.hr = NOERROR) => (qi.ppv = "this" /\ qi.after = qi.before + 1)
    /\ (qi.hr # NOERROR) =>
         (qi.hr = E_NOINTERFACE /\ qi.ppv = "null" /\ qi.after = qi.before)

\* C13 witness: thread 2 asked for IUnknown, got the adapter and the count
\* went from 1 to 2; thread 2 holds both references.
C13_Witness ==
  /\ qi.riid = IID_IUnknown /\ qi.ppvArg /\ qi.thread = 2
  /\ qi.hr = NOERROR /\ qi.ppv = "this"
  /\ qi.before = 1 /\ qi.after = 2
  /\ m_ref = 2 /\ owned[2] = 2

\* C14: a DragEnter on a window with a drag target and a non-null object
\* returns S_OK whatever operation the handler chose, None included, and the
\* word written to *pdwEffect has the Copy, Move and Link flags exactly where
\* the handler's operation has them and no other flag; it is DROPEFFECT_NONE
\* when the handler declined.
C14_EnterSucceedsAndEncodesChoice ==
  (last.op = "DragEnter" /\ last.hadTarget /\ last.arg # Null) =>
    /\ last.hr = S_OK
    /\ \A pair \in {<<OpCopy, DROPEFFECT_COPY>>, <<OpMove, DROPEFFECT_MOVE>>,
                    <<OpLink, DROPEFFECT_LINK>>} :
         (pair[2] \subseteq last.effOut) <=> (pair[1] \subseteq last.res)
    /\ last.effOut \subseteq (DROPEFFECT_COPY \cup DROPEFFECT_MOVE \cup DROPEFFECT_LINK)
    /\ (last.res = OpNone) => (last.effOut = DROPEFFECT_NONE)

\* C14 witness: the host offered Copy|Move|Link, the handler declined, and
\* DragEnter returned S_OK with DROPEFFECT_NONE written back.
C14_Witness ==
  /\ last.op = "DragEnter" /\ last.hadTarget /\ last.arg = 1
  /\ last.effIn = DROPEFFECT_COPY \cup DROPEFFECT_MOVE \cup DROPEFFECT_LINK
  /\ last.res = OpNone
  /\ last.hr = S_OK /\ last.effOut = DROPEFFECT_NONE
  /\ last.ev.kind = "notifyDragEnter"

\* C15: after any DragOver the adapter holds the object it held before the
\* call, and the event DragOver forwarded carries a provider over that object.
C15_DragOverKeepsObject ==
  (last.op = "DragOver") =>
    /\ m_data = last.preData
    /\ (last.ev.kind = "notifyDrag") =>
         (last.ev.data = last.preData /\ last.ev.held = last.preData)

\* C15 witness: a DragOver in a session holding object 2 forwarded an event
\* over object 2 and left it held.
C15_Witness ==
  /\ last.op = "DragOver" /\ last.hr = S_OK
  /\ last.preData = 2 /\ m_data = 2 /\ refs[2] = 1
  /\ last.ev.kind = "notifyDrag" /\ last.ev.data = 2

\* C16: while notifyDragLeave or notifyDrop runs the adapter holds the object
\* the event's provider wraps; the reference is gone once the callback
\* returned; the leave event carries operation None.
C16_NotifyBeforeRelease ==
  (last.ev.kind \in {"notifyDragLeave", "notifyDrop"}) =>
    /\ last.ev.held = last.ev.data
    /\ m_data = Null
    /\ (last.ev.kind = "notifyDragLeave") => (last.ev.op = OpNone)

\* C16 witness: DragLeave in a session holding object 1 notified the window
\* with object 1 still held and operation None, then released it.
C16_Witness ==
  /\ last.op = "DragLeave" /\ last.ev.kind = "notifyDragLeave"
  /\ last.preData = 1 /\ last.ev.data = 1 /\ last.ev.held = 1
  /\ last.ev.op = OpNone
  /\ m_data = Null /\ refs[1] = 0

\* C19: every event forwarded to the window carries a provider over a
\* non-null transfer object.
C19_ProviderNeverWrapsNull ==
  (last.ev.kind # "none") => (last.ev.data # Null)

\* C20: the adapter's acquisitions and releases of each transfer object are
\* balanced at every moment: one unreleased reference to the object it holds,
\* none to any other object, never a negative balance.
C20_ReferencesBalanced ==
  \A o \in Objs : refs[o] = IF m_data = o THEN 1 ELSE 0

\* C20 witness: a second DragEnter in an active session replaced object 1 by
\* object 2; the reference to object 1 was released at the overwrite.
C20_Witness ==
  /\ last.op = "DragEnter" /\ last.hr = S_OK
  /\ last.preData = 1 /\ last.arg = 2
  /\ m_data = 2 /\ refs[1] = 0 /\ refs[2] = 1

\* C17: for every native word, bits beyond Copy/Move/Link included,
\* as_dropoperation yields Copy/Move/Link bits only, each exactly when the
\* matching native flag is set; for every operation value as_dropeffect yields
\* a subset of DROPEFFECT_COPY|MOVE|LINK; zero maps to zero both ways.
C17_UnknownBitsIgnored ==
  (conv.pc \in {"out", "back"}) =>
    /\ (conv.dir = "effect") =>
         /\ conv.out \subseteq (OpCopy \cup OpMove \cup OpLink)
         /\ (OpCopy \subseteq conv.out) <=> (DROPEFFECT_COPY \subseteq conv.input)
         /\ (OpMove \subseteq conv.out) <=> (DROPEFFECT_MOVE \subseteq conv.input)
         /\ (OpLink \subseteq conv.out) <=> (DROPEFFECT_LINK \subseteq conv.input)
         /\ (conv.input = DROPEFFECT_NONE) => (conv.out = OpNone)
    /\ (conv.dir = "op") =>
         /\ conv.out \subseteq (DROPEFFECT_COPY \cup DROPEFFECT_MOVE \cup DROPEFFECT_LINK)
         /\ (conv.input = OpNone) => (conv.out = DROPEFFECT_NONE)

\* C17 witness: the native word Move with the scroll flag decoded to Move
\* alone.
C17_Witness ==
  /\ conv.pc = "out" /\ conv.dir = "effect"
  /\ conv.input = DROPEFFECT_MOVE \cup DROPEFFECT_SCROLL
  /\ conv.out = OpMove

\* C21: whenever loadWintab returned false the handle m_wintabLib is null
\* afterwards, and over any sequence of open calls an entry point is invoked
\* only while its pointer is resolved, after a load that resolved every
\* required one.
C21_FailedLoadLeavesNoHandle ==
  /\ (wt.load = "false") => ~m_wintabLib
  /\ wt.unresolved = {}
  /\ (wt.called # {}) => (RequiredProcs \subseteq procs)

====
